---- MODULE Spec2Model ----
(***************************************************************************)
(* State-machine model of the cookie-session authentication server         *)
(* (src/server.js and the isAuthenticated middleware).                      *)
(*                                                                         *)
(* A request is a small process.  One step of a request runs from the      *)
(* completion of one awaited store call to the issue of the next one, the  *)
(* store call taking effect at the start of the step.  Requests of         *)
(* different slots interleave between steps, as Node's event loop lets     *)
(* them.                                                                   *)
(***************************************************************************)
EXTENDS Integers, FiniteSets, Sequences, TLC

\* ------------------------------------------------------------------ bounds
MaxId == 3          \* user ids that sign-up may allocate (ids 2..MaxId)
MaxSid == 2         \* session ids the session middleware may generate
MaxRequests == 3    \* requests that arrive in one run
maxAge == 1         \* cookie maxAge (one day), in clock ticks of one day

Slots == {1, 2}                      \* requests in flight at the same time
Usernames == {"root", "alice"}
Passwords == {"pw1", "pw2"}
Salts == {"s1"}
Roles == {"standard", "admin"}       \* what a request body may put in "role"
BadId == -1                          \* an :id that is no ObjectId
NoCookie == 0                        \* request without a session cookie
Sids == 1..MaxSid

\* ------------------------------------------------------------ null values
NoHash == [salt |-> "", digest |-> <<>>]
NoRecord == [id |-> 0, username |-> "", password |-> NoHash, role |-> ""]
NoUser == [id |-> 0, username |-> ""]           \* req.session.user undefined
NoResponse == [status |-> 0, message |-> ""]

\* ------------------------------------------------------- password hasher
\* bcrypt: a salted one-way digest; the digest is a function of salt and
\* secret and the salt is kept in the hash.
Hash(secret, salt) == [salt |-> salt, digest |-> <<salt, secret>>]

\* bcrypt.compare(password, user.password)
Compare(secret, hash) == hash # NoHash /\ Hash(secret, hash.salt) = hash

VARIABLES
    users,      \* the User collection: a set of records
    sessions,   \* the session store: session id -> [user, ttl]; ttl is the
                \* time the record has left, its expiry minus the clock
    req,        \* the requests in flight, one per slot
    nextId,     \* next user id the store assigns
    nextSid,    \* next session id the session middleware generates
    issued,     \* session ids sent to a client in a session cookie
    auth,       \* history: last completed sign-in/logout/expiry per session id
    gone,       \* history: users deleted whose identity was not registered since
    served,     \* number of requests that have arrived
    lapsed      \* history: session ids whose record outlived the TTL of its
                \* sign-in and is still in the store

vars ==
    <<users, sessions, req, nextId, nextSid, issued, auth, gone, served, lapsed>>

Idle ==
    [kind |-> "idle", pc |-> "idle", cookie |-> NoCookie, sid |-> 0,
     hasSession |-> FALSE, user |-> NoUser, orig |-> NoUser,
     username |-> "", password |-> "", param |-> 0,
     found |-> NoRecord, target |-> NoRecord,
     res |-> NoResponse,
     expect |-> "na", stale |-> FALSE, passed |-> FALSE, cands |-> {},
     removed |-> 0, created |-> 0, failed |-> FALSE, late |-> FALSE,
     sent |-> 0]

\* The seeded database: one administrator, created outside the API.
RootUser ==
    [id |-> 1, username |-> "root", password |-> Hash("pw1", "s1"),
     role |-> "admin"]

Init ==
    /\ users = {RootUser}
    /\ sessions = << >>
    /\ req = [r \in Slots |-> Idle]
    /\ nextId = 2
    /\ nextSid = 1
    /\ issued = {}
    /\ auth = [s \in Sids |-> "none"]
    /\ gone = {}
    /\ served = 0
    /\ lapsed = {}

\* Slots have no identity: which of two requests sits in which slot means
\* nothing to the server.  The slots are kept in the order of Rank, free
\* slots last, so that one arrangement stands for both.
KindNo(kind) ==
    CASE kind = "sign-up" -> 1 [] kind = "sign-in" -> 2 [] kind = "logout" -> 3
      [] kind = "delete" -> 4 [] kind = "probe" -> 5 [] OTHER -> 9

Rank(q) ==
    KindNo(q.kind) * 1000 + q.sid * 100 + (q.param + 1) * 10
      + (IF q.password = "pw1" THEN 2 ELSE 0)
      + (IF q.username = "root" THEN 1 ELSE 0)

Canon(rq) ==
    IF Rank(rq[1]) <= Rank(rq[2]) THEN rq ELSE [o \in Slots |-> rq[3 - o]]

Put(r, q) == Canon([req EXCEPT ![r] = q])

\* No response is waiting to be handed to its client.  A finished request
\* leaves its slot before anything else happens: handing the response over
\* involves no state of the server.
Quiet == \A r \in Slots : req[r].pc # "done"

\* ------------------------------------------------ credential store (User)
Matches(username) == {u \in users : u.username = username}

\* User.findOne({ username }): some matching document, or null.
FindOne(username) ==
    IF Matches(username) = {} THEN {NoRecord} ELSE Matches(username)

\* User.findById(id): ids are unique, so at most one document matches.
FindById(id) ==
    IF \E u \in users : u.id = id
    THEN CHOOSE u \in users : u.id = id
    ELSE NoRecord

\* ------------------------------------- session store (connect-mongo)
\* store.get(sid): the session document, unless it is past its expiry.
Live(sid) == sid \in DOMAIN sessions /\ sessions[sid].ttl > 0

Expired(sid) == sid \in DOMAIN sessions /\ sessions[sid].ttl = 0

\* store.set(sid, session): an upsert.
Set(store, sid, rec) ==
    [s \in DOMAIN store \cup {sid} |-> IF s = sid THEN rec ELSE store[s]]

\* store.touch(sid, session): updates the expiry of an existing document.
Touch(store, sid, ttl) ==
    [s \in DOMAIN store |->
        IF s = sid THEN [store[s] EXCEPT !.ttl = ttl] ELSE store[s]]

\* store.destroy(sid)
Destroy(store, sid) == [s \in DOMAIN store \ {sid} |-> store[s]]

\* ----------------------------------------------------------- Auth Guard
isAuthenticatedAnySession(hasSession, user) == hasSession

\* if (req.session && req.session.user)
isAuthenticated(hasSession, user) == hasSession /\ user # NoUser

GuardDenied == [status |-> 401, message |-> "You must be logged in to access this"]

\* ------------------------------------------- session middleware, on entry
Guarded(kind) == kind \in {"delete", "probe"}

\* Where a handler stands after the synchronous part that follows the
\* session look-up.
FirstPc(kind, allow) ==
    CASE kind = "sign-up" -> "findOne"
      [] kind = "sign-in" -> "findOne"
      [] kind = "logout" -> "destroy"
      [] kind = "delete" -> IF allow THEN "findAdmin" ELSE "end"
      [] kind = "probe" -> "end"

FirstResponse(kind, allow) ==
    CASE Guarded(kind) /\ ~allow -> GuardDenied
      [] kind = "probe" /\ allow -> [status |-> 200, message |-> "Authenticated"]
      [] OTHER -> NoResponse

\* History: what the last completed sign-in or logout on the cookie's
\* session promises a request that arrives now.
Expectation(cookie) ==
    IF cookie = NoCookie THEN "na"
    ELSE IF auth[cookie] = "in" /\ ~Expired(cookie) THEN "in"
    ELSE IF auth[cookie] = "out" THEN "out"
    ELSE "na"

\* A request arrives: the session middleware looks the cookie's session up
\* and generates a new session when there is none; the guard, where the
\* route has one, runs in the same turn.  The request keeps the cookie of
\* a session that was loaded; a cookie that loads nothing counts from here
\* on as no cookie, the middleware asking only whether it equals the
\* session's id.
Arrive(r, kind, cookie, username, password, param) ==
    /\ Quiet
    /\ req[r].pc = "idle"
    /\ \A o \in Slots : o < r => req[o].pc # "idle"
    /\ served < MaxRequests
    /\ served' = served + 1
    /\ cookie \in issued \cup {NoCookie}
    /\ LET live == cookie # NoCookie /\ Live(cookie)
           sid == IF live THEN cookie ELSE nextSid
           user == IF live THEN sessions[cookie].user ELSE NoUser
           allow == isAuthenticated(TRUE, user)
       IN  /\ live \/ nextSid <= MaxSid
           /\ nextSid' = IF live THEN nextSid ELSE nextSid + 1
           /\ req' = Put(r,
                  [Idle EXCEPT !.kind = kind,
                               !.pc = FirstPc(kind, allow),
                               !.cookie = IF live THEN cookie ELSE NoCookie,
                               !.sid = sid,
                               !.hasSession = TRUE,
                               !.user = user,
                               !.orig = user,
                               !.username = username,
                               !.password = password,
                               !.param = param,
                               !.res = FirstResponse(kind, allow),
                               !.sent = IF FirstResponse(kind, allow) = NoResponse
                                        THEN 0 ELSE 1,
                               !.expect = Expectation(cookie),
                               !.stale = user # NoUser
                                         /\ FindById(user.id) = NoRecord,
                               !.passed = Guarded(kind) /\ allow,
                               !.late = kind = "probe" /\ cookie \in lapsed])
    /\ UNCHANGED <<users, sessions, nextId, issued, auth, gone, lapsed>>

\* const { username, password } = req.body: whatever else the body holds,
\* a role included, goes no further.
BeginSignUp(r) ==
    \E c \in Sids \cup {NoCookie}, u \in Usernames, p \in Passwords,
       role \in Roles :
        Arrive(r, "sign-up", c, u, p, 0)

BeginSignIn(r) ==
    \E c \in Sids \cup {NoCookie}, u \in Usernames, p \in Passwords :
        Arrive(r, "sign-in", c, u, p, 0)

BeginLogout(r) ==
    \E c \in Sids \cup {NoCookie} : Arrive(r, "logout", c, "", "", 0)

\* The :id is no ObjectId, or the id of a document the store has held, or
\* one it has not assigned yet.
BeginDelete(r) ==
    \E c \in Sids \cup {NoCookie}, id \in {BadId} \cup (1..nextId) :
        Arrive(r, "delete", c, "", "", id)

BeginProbe(r) ==
    \E c \in Sids \cup {NoCookie} : Arrive(r, "probe", c, "", "", 0)

\* ------------------------------------ session middleware, on res.end()
\* A generated session is saved (saveUninitialized: true); a loaded one is
\* saved only when its content changed (resave: false) and touched otherwise.
ShouldSave(q) == q.cookie # q.sid \/ q.user # q.orig

End(r) ==
    LET q == req[r]
    IN  /\ q.pc = "end"
        /\ Quiet
        /\ sessions' =
              IF ShouldSave(q)
              THEN Set(sessions, q.sid, [user |-> q.user, ttl |-> maxAge])
              ELSE Touch(sessions, q.sid, maxAge)
        /\ issued' = issued \cup {q.sid}
        /\ auth' = IF q.kind = "sign-in" /\ q.res.status = 200
                   THEN [auth EXCEPT ![q.sid] = "in"]
                   ELSE auth
        /\ lapsed' = IF q.kind = "sign-in" /\ q.res.status = 200
                     THEN lapsed \ {q.sid}
                     ELSE lapsed
        /\ req' = Put(r, [req[r] EXCEPT !.pc = "done"])
        /\ UNCHANGED <<users, nextId, nextSid, gone, served>>

\* The client has its response; the slot is free again.
Recycle(r) ==
    /\ req[r].pc = "done"
    /\ req' = Put(r, Idle)
    /\ UNCHANGED <<users, sessions, nextId, nextSid, issued, auth, gone, served, lapsed>>

Respond(r, status, message) ==
    [req[r] EXCEPT !.res = [status |-> status, message |-> message],
                   !.sent = @ + 1,
                   !.pc = "end"]

\* ------------------------------------------------------- POST /sign-up
TakenNever(existing) == FALSE

\* if (existing)
Taken(existing) == existing # NoRecord

\* const existing = await User.findOne({ username })
SignUpFindOne(r) ==
    LET q == req[r] IN
    /\ q.kind = "sign-up" /\ q.pc = "findOne"
    /\ Quiet
    /\ \E existing \in FindOne(q.username) :
          req' = Put(r,
              IF Taken(existing)
              THEN [Respond(r, 400, "Username already taken.")
                       EXCEPT !.found = existing,
                              !.cands = Matches(q.username)]
              ELSE [q EXCEPT !.pc = "save",
                             !.cands = Matches(q.username)])
    /\ UNCHANGED <<users, sessions, nextId, nextSid, issued, auth, gone, served, lapsed>>

NewUserAdmin(id, username, password, salt) ==
    [id |-> id, username |-> username, password |-> Hash(password, salt),
     role |-> "admin"]

\* The User model: the pre-save hook replaces the secret by its salted
\* hash, the role defaults to "standard", the store assigns the id.
NewUser(id, username, password, salt) ==
    [id |-> id, username |-> username, password |-> Hash(password, salt),
     role |-> "standard"]

\* The store's insert: the collection accepts the document as it is.
Insert(coll, doc) == coll \cup {doc}

SignUpSaveSignsIn(r) ==
    LET q == req[r] IN
    /\ q.kind = "sign-up" /\ q.pc = "save"
    /\ Quiet
    /\ nextId <= MaxId
    /\ \E salt \in Salts :
          users' = Insert(users, NewUser(nextId, q.username, q.password, salt))
    /\ nextId' = nextId + 1
    /\ gone' = {g \in gone : g.username # q.username}
    /\ req' = Put(r,
          [Respond(r, 201, "User registered successfully.")
              EXCEPT !.created = nextId,
                     !.user = [id |-> nextId, username |-> q.username]])
    /\ UNCHANGED <<sessions, nextSid, issued, auth, served, lapsed>>

\* const user = new User({ username, password }); await user.save()
SignUpSave(r) ==
    LET q == req[r] IN
    /\ q.kind = "sign-up" /\ q.pc = "save"
    /\ Quiet
    /\ nextId <= MaxId
    /\ \E salt \in Salts :
          users' = Insert(users, NewUser(nextId, q.username, q.password, salt))
    /\ nextId' = nextId + 1
    /\ gone' = {g \in gone : g.username # q.username}
    /\ req' = Put(r,
          [Respond(r, 201, "User registered successfully.")
              EXCEPT !.created = nextId])
    /\ UNCHANGED <<sessions, nextSid, issued, auth, served, lapsed>>

\* ------------------------------------------------------- POST /sign-in
AuthFailedTellsWhy(user, password) ==
    IF user = NoRecord THEN [status |-> 401, message |-> "User not found"]
    ELSE [status |-> 401, message |-> "Authentication failed"]

\* return res.status(401).send({ message: "Authentication failed" })
AuthFailed(user, password) ==
    [status |-> 401, message |-> "Authentication failed"]

RejectedOnlyUnknown(user, password) == user = NoRecord

\* if (!user || !(await bcrypt.compare(password, user.password)))
Rejected(user, password) ==
    user = NoRecord \/ ~Compare(password, user.password)

\* The look-up, the comparison (which reads only the request's own values)
\* and the assignment to req.session.user.
SignInFindOne(r) ==
    LET q == req[r] IN
    /\ q.kind = "sign-in" /\ q.pc = "findOne"
    /\ Quiet
    /\ \E user \in FindOne(q.username) :
          req' = Put(r,
              IF Rejected(user, q.password)
              THEN [q EXCEPT !.res = AuthFailed(user, q.password),
                             !.sent = @ + 1,
                             !.pc = "end",
                             !.found = user,
                             !.cands = Matches(q.username)]
              ELSE [Respond(r, 200, "Logged in successfully")
                       EXCEPT !.user = [id |-> user.id,
                                        username |-> user.username],
                              !.found = user,
                              !.cands = Matches(q.username)])
    /\ UNCHANGED <<users, sessions, nextId, nextSid, issued, auth, gone, served, lapsed>>

\* -------------------------------------------------------- POST /logout
\* req.session.destroy(callback): the store forgets the session, the
\* callback answers, and res.end() finds no session to save.
Logout(r) ==
    LET q == req[r] IN
    /\ q.kind = "logout" /\ q.pc = "destroy"
    /\ Quiet
    /\ IF q.hasSession
       THEN /\ sessions' = Destroy(sessions, q.sid)
            /\ auth' = [auth EXCEPT ![q.sid] = "out"]
            /\ lapsed' = lapsed \ {q.sid}
            /\ req' = Put(r,
                   [q EXCEPT !.res = [status |-> 200,
                                      message |-> "Logout successful"],
                             !.sent = @ + 1,
                             !.hasSession = FALSE,
                             !.pc = "done"])
       ELSE /\ req' = Put(r,
                   [q EXCEPT !.res = [status |-> 400,
                                      message |-> "You are not logged in"],
                             !.sent = @ + 1,
                             !.pc = "done"])
            /\ UNCHANGED <<sessions, auth, lapsed>>
    /\ UNCHANGED <<users, nextId, nextSid, issued, gone, served>>

\* --------------------------------------------------- DELETE /user/:id
AuthorizedAnyUser(admin) == admin # NoRecord

AuthorizedUnlessStandard(admin) == admin = NoRecord \/ admin.role = "admin"

\* the negation of: if (!admin || admin.role !== "admin")
Authorized(admin) == admin # NoRecord /\ admin.role = "admin"

\* const admin = await User.findById(req.session.user.id)
DeleteFindAdmin(r) ==
    LET q == req[r]
        admin == FindById(q.user.id)
    IN  /\ q.kind = "delete" /\ q.pc = "findAdmin"
        /\ Quiet
        /\ req' = Put(r,
              IF Authorized(admin)
              THEN [q EXCEPT !.found = admin, !.pc = "findTarget"]
              ELSE [Respond(r, 401, "Unauthorized") EXCEPT !.found = admin])
        /\ UNCHANGED <<users, sessions, nextId, nextSid, issued, auth, gone, served, lapsed>>

DeleteFindTargetNoReturn(r) ==
    LET q == req[r]
        user == FindById(q.param)
    IN  /\ q.kind = "delete" /\ q.pc = "findTarget"
        /\ Quiet
        /\ req' = Put(r,
              IF q.param = BadId THEN Respond(r, 500, "CastError")
              ELSE IF user = NoRecord
              THEN [Respond(r, 500, "TypeError") EXCEPT !.sent = q.sent + 2]
              ELSE [q EXCEPT !.target = user, !.pc = "remove"])
        /\ UNCHANGED <<users, sessions, nextId, nextSid, issued, auth, gone, served, lapsed>>

\* const user = await User.findById(req.params.id): an :id that is no
\* ObjectId makes the query throw a CastError, which the catch answers.
DeleteFindTarget(r) ==
    LET q == req[r]
        user == FindById(q.param)
    IN  /\ q.kind = "delete" /\ q.pc = "findTarget"
        /\ Quiet
        /\ req' = Put(r,
              IF q.param = BadId THEN Respond(r, 500, "CastError")
              ELSE IF user = NoRecord THEN Respond(r, 404, "User not found")
              ELSE [q EXCEPT !.target = user, !.pc = "remove"])
        /\ UNCHANGED <<users, sessions, nextId, nextSid, issued, auth, gone, served, lapsed>>

\* await user.remove()
DeleteRemove(r) ==
    LET q == req[r]
        doc == {u \in users : u.id = q.target.id}
    IN  /\ q.kind = "delete" /\ q.pc = "remove"
        /\ Quiet
        /\ users' = users \ doc
        /\ gone' = gone \cup {[id |-> u.id, username |-> u.username] : u \in doc}
        /\ req' = Put(r,
              [Respond(r, 200, "User deleted successfully")
                  EXCEPT !.removed = IF doc = {} THEN 0 ELSE q.target.id])
        /\ UNCHANGED <<sessions, nextId, nextSid, issued, auth, served, lapsed>>

\* ------------------------------------------------------- store failures
\* What each handler answers when the store call it awaits fails: the catch
\* blocks of sign-up, sign-in and delete, and the destroy callback's err
\* branch.
FailureResponse(kind) ==
    CASE kind = "sign-up" -> [status |-> 400, message |-> "StoreError"]
      [] kind = "logout" ->
            [status |-> 500, message |-> "Could not log out, please try again"]
      [] OTHER -> [status |-> 500, message |-> "StoreError"]

\* The request has issued a store call and waits for its outcome.
Awaiting(q) ==
    q.pc \in {"findOne", "save", "findAdmin", "findTarget", "remove", "destroy"}

\* The awaited store call fails, leaving the store as it was.  The handler
\* answers once and makes no second call; destroy() has already detached
\* the session from the request, so res.end() saves nothing after a failed
\* logout.
Fail(r) ==
    LET q == req[r] IN
    /\ Awaiting(q)
    /\ Quiet
    /\ req' = Put(r,
          [q EXCEPT !.res = FailureResponse(q.kind),
                    !.sent = @ + 1,
                    !.failed = TRUE,
                    !.hasSession = q.kind # "logout",
                    !.pc = IF q.kind = "logout" THEN "done" ELSE "end"])
    /\ UNCHANGED <<users, sessions, nextId, nextSid, issued, auth, gone, served, lapsed>>

\* ------------------------------------------------------------- the clock
\* One tick passes: every session record has one tick less to live.
Tick ==
    /\ Quiet
    /\ \E s \in DOMAIN sessions : sessions[s].ttl > 0
    /\ sessions' = [s \in DOMAIN sessions |->
          [sessions[s] EXCEPT !.ttl = IF @ > 0 THEN @ - 1 ELSE 0]]
    /\ lapsed' = lapsed \cup {s \in DOMAIN sessions :
                                sessions[s].ttl = 1 /\ sessions[s].user # NoUser}
    /\ UNCHANGED <<users, req, nextId, nextSid, issued, auth, gone, served>>

\* The store's TTL index removes a session document past its expiry.
Reap(s) ==
    /\ Expired(s)
    /\ Quiet
    /\ sessions' = Destroy(sessions, s)
    /\ auth' = [auth EXCEPT ![s] = IF @ = "in" THEN "expired" ELSE @]
    /\ lapsed' = lapsed \ {s}
    /\ UNCHANGED <<users, req, nextId, nextSid, issued, gone, served>>

Next ==
    \/ \E r \in Slots : BeginSignUp(r)
    \/ \E r \in Slots : BeginSignIn(r)
    \/ \E r \in Slots : BeginLogout(r)
    \/ \E r \in Slots : BeginDelete(r)
    \/ \E r \in Slots : BeginProbe(r)
    \/ \E r \in Slots : SignUpFindOne(r)
    \/ \E r \in Slots : SignUpSave(r)
    \/ \E r \in Slots : SignInFindOne(r)
    \/ \E r \in Slots : Logout(r)
    \/ \E r \in Slots : DeleteFindAdmin(r)
    \/ \E r \in Slots : DeleteFindTarget(r)
    \/ \E r \in Slots : DeleteRemove(r)
    \/ \E r \in Slots : End(r)
    \/ \E r \in Slots : Recycle(r)
    \/ \E s \in Sids : Reap(s)
    \/ Tick

Spec == Init /\ [][Next]_vars

\* The same server with store calls that may fail.
NextF ==
    \/ Next
    \/ \E r \in Slots : Fail(r)

SpecF == Init /\ [][NextF]_vars

\* Every store call returns or fails in the end, and so do res.end() and the
\* hand-over of the response: a request that can take a step takes one.
Step(r) ==
    \/ SignUpFindOne(r) \/ SignUpSave(r) \/ SignInFindOne(r) \/ Logout(r)
    \/ DeleteFindAdmin(r) \/ DeleteFindTarget(r) \/ DeleteRemove(r)
    \/ Fail(r) \/ End(r) \/ Recycle(r)

FairSpec == SpecF /\ \A r \in Slots : WF_vars(Step(r))

\* ======================================================== the claims
Done(r, kind) == req[r].kind = kind /\ req[r].pc = "done"

\* C1: after a sign-in on session S has returned 200, every probe on S
\* returns 200 until a logout on S returns 200 or S expires; after a logout
\* on S has returned 200, every probe on S returns 401 until a new
\* successful sign-in.
C1_ProbeFollowsSession ==
    \A r \in Slots :
        Done(r, "probe") =>
            /\ req[r].expect = "in" => req[r].res.status = 200
            /\ req[r].expect = "out" => req[r].res.status = 401

\* C2: the guard lets a request through to the protected handler if and
\* only if the session is present and holds a user; otherwise the handler
\* never runs and the response is 401 "You must be logged in to access this".
C2_GuardAllowsIffUser ==
    /\ \A u \in {NoUser, [id |-> 1, username |-> "root"]} :
          ~isAuthenticated(FALSE, u)
    /\ \A r \in Slots :
          Guarded(req[r].kind) =>
              /\ req[r].passed <=> (req[r].hasSession /\ req[r].orig # NoUser)
              /\ ~req[r].passed =>
                    /\ req[r].res = GuardDenied
                    /\ req[r].pc \in {"end", "done"}
                    /\ req[r].found = NoRecord
                    /\ req[r].removed = 0
              /\ (req[r].passed /\ Done(r, "probe")) => req[r].res.status = 200

C2_Witness ==
    \E r1, r2 \in Slots :
        /\ req[r1].kind = "delete" /\ req[r1].passed
        /\ Done(r2, "probe") /\ ~req[r2].passed /\ req[r2].res = GuardDenied

\* C3: a sign-in with an unregistered identity and a sign-in with a
\* registered identity and a secret that does not match get the same
\* response (401 "Authentication failed") and leave the session payload as
\* it was loaded.
Answered(r) ==
    /\ req[r].kind = "sign-in" /\ req[r].pc \in {"end", "done"}
    /\ ~req[r].failed

Unregistered(r) == Answered(r) /\ req[r].cands = {}

WrongSecret(r) ==
    /\ Answered(r)
    /\ req[r].cands # {}
    /\ \A u \in req[r].cands : u.password.digest # <<u.password.salt, req[r].password>>

RoleLookedUp(r) ==
    /\ req[r].kind = "delete" /\ req[r].passed
    /\ req[r].pc # "findAdmin"
    /\ ~req[r].failed

C4_NonAdminDeletesNothing ==
    \A r \in Slots :
        /\ (req[r].kind = "delete" /\ ~req[r].passed) =>
              /\ req[r].res.status = 401
              /\ req[r].removed = 0 /\ req[r].target = NoRecord
        /\ (RoleLookedUp(r) /\ (req[r].found = NoRecord \/ req[r].found.role = "standard")) =>
              /\ req[r].pc \in {"end", "done"}
              /\ req[r].res.status = 401
              /\ req[r].removed = 0 /\ req[r].target = NoRecord

C4_Witness ==
    \E r \in Slots :
        /\ Done(r, "delete") /\ req[r].passed
        /\ req[r].found # NoRecord /\ req[r].found.role = "standard"
        /\ \E u \in users : u.id = req[r].param
        /\ req[r].res.status = 401

\* C6: once a user with identity i is registered and not deleted, a later
\* sign-up with identity i, whatever its secret, returns 400 "Username
\* already taken." and creates no record.
LookedUp(r) == req[r].kind = "sign-up" /\ req[r].pc \in {"save", "end", "done"}

C6_DuplicateSignUpRefused ==
    \A r \in Slots :
        (LookedUp(r) /\ req[r].cands # {}) =>
            /\ req[r].pc \in {"end", "done"}
            /\ req[r].res = [status |-> 400, message |-> "Username already taken."]
            /\ req[r].created = 0

C6_Witness ==
    \E r \in Slots :
        /\ Done(r, "sign-up")
        /\ \A o \in Slots \ {r} : req[o].pc = "idle"
        /\ \E u \in req[r].cands :
              /\ u.id > 1 /\ u \in users
              /\ u.password.digest # <<u.password.salt, req[r].password>>
        /\ req[r].res.status = 400

\* C5: for an admin actor, deleteUser on an id that matches no User responds
\* 404 and removes nothing; on the id of an existing User it responds 200,
\* and afterwards that User is retrievable neither by id nor by identity.
TargetLookedUp(r) ==
    /\ RoleLookedUp(r) /\ req[r].found # NoRecord /\ req[r].found.role = "admin"
    /\ req[r].pc \in {"remove", "end", "done"}

C5_AdminDelete ==
    /\ \A r \in Slots :
          TargetLookedUp(r) =>
              IF req[r].target = NoRecord
              THEN /\ req[r].res.status = 404
                   /\ req[r].removed = 0
              ELSE /\ req[r].pc = "remove" \/ req[r].res.status = 200
                   /\ req[r].target.id = req[r].param
    /\ \A g \in gone :
          /\ ~\E u \in users : u.id = g.id
          /\ Matches(g.username) = {}

\* C7: no two User records have the same identity.
C7_UniqueIdentity ==
    \A u, v \in users : u.username = v.username => u = v

\* C8: while a user registered by sign-up(i, s) exists, sign-in(i, s')
\* returns 200 if and only if s' = s, and 401 "Authentication failed" otherwise.
OriginalSecret(u) == u.password.digest[2]

\* u was created by a sign-up that has returned its 201.
Registered(u) == u.id > 1 /\ \A o \in Slots : req[o].created # u.id

C8_SignInIffOriginalSecret ==
    \A r \in Slots :
        Done(r, "sign-in") =>
            \A u \in req[r].cands :
                Registered(u) =>
                    IF req[r].password = OriginalSecret(u)
                    THEN req[r].res.status = 200
                    ELSE req[r].res = [status |-> 401,
                                       message |-> "Authentication failed"]

\* C9: once the User a session references is deleted, every later request
\* under that session is answered 401, as a request without a logged-in
\* session is.
C9_StaleSessionUnauthenticated ==
    \A r \in Slots :
        (Guarded(req[r].kind) /\ req[r].pc = "done" /\ req[r].stale) =>
            req[r].res.status = 401

\* C10: a logout on a session that holds no sign-in responds 400 "You are
\* not logged in" and never 200.
C10_LogoutWithoutSignIn ==
    \A r \in Slots :
        (Done(r, "logout") /\ req[r].orig = NoUser /\ ~req[r].failed) =>
            req[r].res = [status |-> 400, message |-> "You are not logged in"]

\* C11: a successful sign-in stores the user payload under a fresh session
\* id: never under an id that existed before the sign-in request.
C11_FreshSessionId ==
    \A r \in Slots :
        (Done(r, "sign-in") /\ req[r].res.status = 200) =>
            req[r].cookie # req[r].sid

\* C12: once the TTL of a signed-in session has elapsed, every probe that
\* arrives under that session returns 401, logout or no logout.
C12_ExpiredProbeDenied ==
    \A r \in Slots :
        (Done(r, "probe") /\ req[r].late) => req[r].res.status = 401

\* C13: a sign-up request adds exactly one User record when it responds 201
\* and adds, removes and changes no User record when it responds 400; it
\* never puts a user payload into its session, whose payload in the store
\* stays what it was (none for a session the request has generated).
PayloadKept ==
    \A s \in DOMAIN sessions' :
        sessions'[s].user =
            IF s \in DOMAIN sessions THEN sessions[s].user ELSE NoUser

C13_SignUpFrame ==
    [][\A r \in Slots :
          req[r].kind = "sign-up" =>
              /\ req[r].user = req[r].orig
              /\ SignUpFindOne(r) => users' = users /\ sessions' = sessions
              /\ Fail(r) => users' = users /\ sessions' = sessions
              /\ SignUpSave(r) =>
                    /\ req[r].created = 0
                    /\ users \subseteq users'
                    /\ Cardinality(users') = Cardinality(users) + 1
                    /\ sessions' = sessions
              /\ End(r) =>
                    /\ req[r].res.status \in {201, 400}
                    /\ req[r].res.status = 201 <=> req[r].created # 0
                    /\ users' = users
                    /\ PayloadKept
      ]_vars

C13_Witness ==
    \E r1, r2 \in Slots :
        /\ Done(r1, "sign-up") /\ req[r1].res.status = 201
        /\ \E u \in users : u.id = req[r1].created
        /\ req[r2].kind = "sign-up" /\ req[r2].pc = "end"
        /\ req[r2].failed /\ req[r2].res.status = 400

\* C14: every User record that sign-up creates has role "standard",
\* whatever the request body holds, and no operation of the API increases
\* the set of users with role "admin".
Admins(coll) == {u \in coll : u.role = "admin"}

C14_NoNewAdmin ==
    [][/\ Admins(users') \subseteq Admins(users)
       /\ \A u \in users' \ users : u.role = "standard"]_vars

C14_Witness ==
    \E r \in Slots :
        /\ Done(r, "sign-up")
        /\ \E u \in users : u.id = req[r].created /\ u.role = "standard"
        /\ Admins(users) = {RootUser}

\* C15: the probe has no side effects: allowed or denied, it leaves the set
\* of User records and the set of session records unchanged; a denied probe
\* from a client without a session creates no session record.
C15_ProbeNoSideEffects ==
    [][\A r \in Slots :
          (req[r].kind = "probe" /\ End(r)) =>
              /\ users' = users
              /\ sessions' = sessions
      ]_vars

\* C16: a failure of a store call during any operation is answered with a
\* 5xx response, never 2xx or 4xx, and the call is not made again.
C16_StoreFailureIs5xx ==
    \A r \in Slots :
        req[r].failed =>
            /\ req[r].res.status >= 500
            /\ ~Awaiting(req[r])

\* C17: a deleteUser request that responds 200 removes exactly the target
\* User record and nothing else, and creates, changes and destroys no
\* session record; one that responds 401, 404 or 500 removes no User record.
C17_DeleteFrame ==
    [][\A r \in Slots :
          req[r].kind = "delete" =>
              /\ (DeleteFindAdmin(r) \/ DeleteFindTarget(r) \/ Fail(r)) =>
                    users' = users /\ sessions' = sessions
              /\ DeleteRemove(r) =>
                    /\ users' = users \ {req[r].target}
                    /\ sessions' = sessions
              /\ End(r) =>
                    /\ users' = users
                    /\ req[r].res.status \in {200, 401, 404, 500}
                    /\ req[r].res.status # 200 => req[r].removed = 0
                    /\ req[r].res.status = 200 => sessions' = sessions
      ]_vars

\* C18: the role check of deleteUser is made against the Credential Store
\* at request time: once the User record of a session's user is removed,
\* every deleteUser request that starts afterwards under that session
\* responds 401 and removes no record.
C18_RoleCheckedAtRequestTime ==
    \A r \in Slots :
        (req[r].kind = "delete" /\ req[r].stale /\ ~req[r].failed) =>
            /\ req[r].passed
            /\ req[r].pc \in {"findAdmin", "end", "done"}
            /\ req[r].pc # "findAdmin" =>
                  req[r].res = [status |-> 401, message |-> "Unauthorized"]
            /\ req[r].removed = 0 /\ req[r].target = NoRecord

C18_Witness ==
    \E r \in Slots :
        /\ Done(r, "delete") /\ req[r].stale
        /\ req[r].orig = [id |-> 1, username |-> "root"]
        /\ req[r].sid \in DOMAIN sessions /\ sessions[req[r].sid].ttl > 0
        /\ req[r].res = [status |-> 401, message |-> "Unauthorized"]

\* C19: every request to sign-up, sign-in, logout, delete and probe receives
\* exactly one response in the end, on every path, store failures included,
\* provided each store call returns or fails in the end: no path sends two
\* responses or none.
NoneWaiting == \A r \in Slots : req[r].pc = "idle"

C19_ExactlyOneResponse ==
    /\ [](\A r \in Slots :
            /\ req[r].sent <= 1
            /\ req[r].pc \in {"end", "done"} <=> req[r].sent = 1)
    /\ []<>NoneWaiting

C19_Witness ==
    \E r1, r2 \in Slots :
        /\ req[r1].pc = "done" /\ req[r1].failed /\ req[r1].sent = 1
        /\ req[r2].pc = "end" /\ ~req[r2].failed /\ req[r2].sent = 1

\* C20: a session's user payload, when present, holds the id and identity of
\* one User record, the one whose secret a sign-in on that session verified;
\* only a successful sign-in sets the payload, and a failed sign-in (401 or
\* 500) leaves the payload of its session exactly as it was.
PayloadBefore(s) == IF s \in DOMAIN sessions THEN sessions[s].user ELSE NoUser

VerifiedSignIn(r, s) ==
    /\ req[r].kind = "sign-in" /\ req[r].sid = s
    /\ req[r].res.status = 200 /\ ~req[r].failed
    /\ req[r].found \in req[r].cands
    /\ Compare(req[r].password, req[r].found.password)
    /\ sessions'[s].user = [id |-> req[r].found.id,
                            username |-> req[r].found.username]

C20_PayloadIntegrity ==
    [][/\ \A s \in DOMAIN sessions' :
             sessions'[s].user # PayloadBefore(s) =>
                 \E r \in Slots : End(r) /\ VerifiedSignIn(r, s)
       /\ \A r \in Slots :
             (End(r) /\ req[r].kind = "sign-in" /\ req[r].res.status # 200) =>
                 /\ req[r].res.status \in {401, 500}
                 /\ PayloadKept
      ]_vars

C20_Witness ==
    \E r \in Slots :
        /\ Done(r, "sign-in") /\ req[r].res.status = 401
        /\ req[r].orig # NoUser
        /\ req[r].sid \in DOMAIN sessions
        /\ sessions[req[r].sid].user = req[r].orig

====
